---- MODULE Spec2Model ----
\* A model of the progressive unique-key search (src/find_unique.py) and of the
\* historical cache preloader (src/store_hist.py).
EXTENDS Integers, Sequences, FiniteSets, TLC

\* ---------------------------------------------------------------- bounds

\* Largest number of rows of a modelled DataFrame.
MaxRows == 4
\* Largest beam width (top_n_to_carry_over) a run is started with.
MaxTopN == 2
\* Largest number of calls of preload_cache_from_history in a behaviour.
MaxImports == 2

\* The column names a modelled DataFrame may have, in DataFrame order.
ColumnNames == <<"A", "B", "C">>
\* The cell values of a modelled DataFrame.
Vals == {0, 1}

VARIABLES
    \* --- find_most_unique_column_combination_progressive
    all_columns,                       \* df.columns
    df_rows,                           \* the rows of df, each a tuple of cells
    top_n_to_carry_over,
    pc,                                \* position in the function
    r,                                 \* the loop variable of line 41
    filtered_candidate_combinations,
    idx,                               \* position of the loop of line 96
    current_stage_results,             \* dict, as its items in insertion order
    previous_stage_top_combinations,
    best_combination_overall,
    max_unique_rows_overall,
    num_unique,                        \* the count of the last evaluation
    combo_names_list,                  \* the candidate of the last evaluation
    reason,                            \* which return or break ended the run
    evaluated,                         \* history: the <<candidate, count>> of
                                       \* the evaluations of line 101, in order
    \* --- preload_cache_from_history
    cache_file,                        \* the Parquet file at cache_path
    history_file,                      \* the log file of the last call
    parsed_records,                    \* parse_history_log() of the last call
    historical_dataset_name,           \* the dataset name of the last call
    existing_cache_df,                 \* what the last call found at cache_path
    n_imports,                         \* the calls made so far
    procs,                             \* the locals of the calls that run
                                       \* at the same time, if any
    \* --- the search with the persistent cache
    run,                               \* the run going on: 1 or 2
    dataset_id,                        \* the dataset identifier of the run
    new_cache_entries,                 \* the writes staged by the stage
    queries,                           \* the keys the run asked the dataset for
    obtained,                          \* <<key, count>> of the run's evaluations
    first_run                          \* queries and obtained of run 1, and the
                                       \* keys it left in the store

search_vars == <<all_columns, df_rows, top_n_to_carry_over, pc, r,
                 filtered_candidate_combinations, idx, current_stage_results,
                 previous_stage_top_combinations, best_combination_overall,
                 max_unique_rows_overall, num_unique, combo_names_list, reason,
                 evaluated>>

import_vars == <<cache_file, history_file, parsed_records, historical_dataset_name,
                 existing_cache_df, n_imports, procs>>

main_vars == <<run, dataset_id, new_cache_entries, queries, obtained, first_run>>

vars == <<search_vars, import_vars, main_vars>>

\* ---------------------------------------------------------------- helpers

Range(s) == {s[i] : i \in 1..Len(s)}

Min(a, b) == IF a <= b THEN a ELSE b

\* Position of a column name in df.columns.
ColIdx(cols, c) == CHOOSE i \in 1..Len(cols) : cols[i] = c

\* One more than the number of rows.
Height_off(rows) == Len(rows) + 1

\* df.height
Height(rows) == Len(rows)

\* df.select(pl.struct(combo).n_unique()).item(): the number of distinct
\* projections of the rows on the columns of combo.
NUniqueOf(cols, rows, colset) ==
    Cardinality({ [c \in colset |-> rows[i][ColIdx(cols, c)]] : i \in 1..Len(rows) })

NUnique(cols, rows, combo) == NUniqueOf(cols, rows, Range(combo))

\* itertools.combinations(seq, k): the k-subsequences of seq, in lexicographic
\* order of positions.
RECURSIVE Combinations(_, _)
Combinations(seq, k) ==
    IF k = 0 THEN << <<>> >>
    ELSE IF Len(seq) < k THEN <<>>
    ELSE LET withHead == Combinations(Tail(seq), k - 1)
             without  == Combinations(Tail(seq), k)
         IN [i \in 1..Len(withHead) |-> <<Head(seq)>> \o withHead[i]] \o without

\* No combination shares a column with the beam.
Overlaps_none(combo, beam) == FALSE

\* The combination shares a column with every combination of the beam.
Overlaps_all(combo, beam) ==
    \A j \in 1..Len(beam) : \E col \in Range(combo) : col \in beam[j]

\* The combination shares a column with the first combination of the beam.
Overlaps_first(combo, beam) ==
    beam # <<>> /\ \E col \in Range(combo) : col \in beam[1]

\* Lines 87: the combination shares a column with a combination of the beam.
Overlaps(combo, beam) ==
    \E col \in Range(combo) : \E j \in 1..Len(beam) : col \in beam[j]

RECURSIVE SelectSeq2(_, _)
SelectSeq2(s, beam) ==
    IF s = <<>> THEN <<>>
    ELSE IF Overlaps(Head(s), beam)
         THEN <<Head(s)>> \o SelectSeq2(Tail(s), beam)
         ELSE SelectSeq2(Tail(s), beam)

\* Every candidate listed twice.
FilteredCandidates_twice(cols, k, beam) ==
    (IF k = 1 THEN Combinations(cols, k) ELSE SelectSeq2(Combinations(cols, k), beam))
    \o (IF k = 1 THEN Combinations(cols, k) ELSE SelectSeq2(Combinations(cols, k), beam))

\* Lines 70-88: the candidates of stage k, given the beam of stage k-1.
FilteredCandidates(cols, k, beam) ==
    IF k = 1 THEN Combinations(cols, k)
    ELSE SelectSeq2(Combinations(cols, k), beam)

\* Lines 48-53: the pool of columns of the stage.
Pool(cols, k, beam) ==
    IF k = 1 THEN Range(cols)
    ELSE UNION Range(beam)

\* Insert an item before the items of equal count.
RECURSIVE InsertDesc_unstable(_, _)
InsertDesc_unstable(item, s) ==
    IF s = <<>> THEN <<item>>
    ELSE IF Head(s)[2] > item[2]
         THEN <<Head(s)>> \o InsertDesc_unstable(item, Tail(s))
         ELSE <<item>> \o s

\* Insert an item into a list sorted by count descending, after the items of
\* equal count (sorted() is stable, also with reverse=True).
RECURSIVE InsertDesc(_, _)
InsertDesc(item, s) ==
    IF s = <<>> THEN <<item>>
    ELSE IF Head(s)[2] >= item[2]
         THEN <<Head(s)>> \o InsertDesc(item, Tail(s))
         ELSE <<item>> \o s

\* Lines 117-119: sorted(items, key=count, reverse=True).
RECURSIVE SortedDesc(_)
SortedDesc(items) ==
    IF items = <<>> THEN <<>>
    ELSE InsertDesc(items[Len(items)], SortedDesc(SubSeq(items, 1, Len(items) - 1)))

\* The slice dropped: every combination is carried over.
TopCombinations_noslice(sorted_results, n) ==
    [i \in 1..Len(sorted_results) |-> sorted_results[i][1]]

\* The slice one short: sorted_results[:n - 1].
TopCombinations_short(sorted_results, n) ==
    [i \in 1..Min(n - 1, Len(sorted_results)) |-> sorted_results[i][1]]

\* Lines 121-123: the combinations of sorted_results[:n], for n >= 0.
TopCombinations(sorted_results, n) ==
    [i \in 1..Min(n, Len(sorted_results)) |-> sorted_results[i][1]]

\* Every evaluation replaces the best.
IsNewBest_always(n, best) == TRUE

\* The comparison of line 105 with >= for >.
IsNewBest_ge(n, best) == n >= best

\* Line 105: num_unique > max_unique_rows_overall.
IsNewBest(n, best) == n > best

\* current_stage_results[key] = value: a new key is appended, an existing key
\* keeps its place.
DictSet(d, key, value) ==
    IF \E i \in 1..Len(d) : d[i][1] = key
    THEN [i \in 1..Len(d) |-> IF d[i][1] = key THEN <<key, value>> ELSE d[i]]
    ELSE Append(d, <<key, value>>)

\* ---------------------------------------------------------------- inputs

\* Rows compared as tuples, cell by cell.
RECURSIVE RowLeq(_, _)
RowLeq(a, b) ==
    IF a = <<>> THEN TRUE
    ELSE IF Head(a) # Head(b) THEN Head(a) < Head(b)
    ELSE RowLeq(Tail(a), Tail(b))

\* The DataFrames of n columns and at most maxRows rows. The search reads df
\* only through height and n_unique, which do not depend on the order of the
\* rows, so each collection of rows is listed once, in ascending order.
DataFrames(n, maxRows) ==
    LET Row == [1..n -> Vals]
        All == UNION {[1..h -> Row] : h \in 0..maxRows}
    IN {rows \in All : \A i \in 1..(Len(rows) - 1) : RowLeq(rows[i], rows[i + 1])}

\* ---------------------------------------------------------------- search

\* Neither break is taken.
StageBreaks_never(pool, cands, k) == FALSE

\* Lines 56 and 91: the conditions of the two breaks of stage k.
StageBreaks(pool, cands, k) ==
    (pool = {} /\ k > 1) \/ (cands = <<>> /\ k > 1)

\* Lines 25-37.
SearchInit ==
    /\ \E n \in 0..Len(ColumnNames) :
          /\ all_columns = SubSeq(ColumnNames, 1, n)
          /\ df_rows \in DataFrames(n, MaxRows)
    /\ top_n_to_carry_over \in 0..MaxTopN
    /\ pc = "loop"
    /\ r = 0
    /\ filtered_candidate_combinations = <<>>
    /\ idx = 0
    /\ current_stage_results = <<>>
    /\ previous_stage_top_combinations = <<>>
    /\ best_combination_overall = <<>>
    /\ max_unique_rows_overall = 0
    /\ num_unique = 0
    /\ combo_names_list = <<>>
    /\ reason = "none"
    /\ evaluated = <<>>

\* Lines 41-93: the head of the loop and the start of a stage: the pool, the
\* two breaks, and the loop entered with the candidates cands.
StageStart(cands) ==
    /\ pc = "loop"
    /\ r < Len(all_columns)
    /\ r' = r + 1
    /\ current_stage_results' = <<>>
    /\ LET pool == Pool(all_columns, r + 1, previous_stage_top_combinations)
       IN IF StageBreaks(pool, cands, r + 1)
          THEN /\ pc' = "returned"
               /\ reason' = "NoCandidates"
               /\ UNCHANGED <<filtered_candidate_combinations, idx>>
          ELSE /\ pc' = "eval"
               /\ filtered_candidate_combinations' = cands
               /\ idx' = 1
               /\ UNCHANGED reason
    /\ UNCHANGED <<all_columns, df_rows, top_n_to_carry_over,
                   previous_stage_top_combinations, best_combination_overall,
                   max_unique_rows_overall, num_unique, combo_names_list,
                   evaluated>>
    /\ UNCHANGED <<import_vars, main_vars>>

\* Lines 41-93, with the candidates of lines 70-88.
StartStage ==
    StageStart(FilteredCandidates(all_columns, r + 1, previous_stage_top_combinations))

\* Lines 96-112 after line 101: one iteration of the evaluation loop, n being
\* the count of the candidate.
EvaluateStep(n) ==
    /\ pc = "eval"
    /\ LET combo == filtered_candidate_combinations[idx]
           newMax == IF IsNewBest(n, max_unique_rows_overall)
                     THEN n ELSE max_unique_rows_overall
       IN /\ combo_names_list' = combo
          /\ num_unique' = n
          /\ evaluated' = Append(evaluated, <<combo, n>>)
          /\ current_stage_results' = DictSet(current_stage_results, Range(combo), n)
          /\ max_unique_rows_overall' = newMax
          /\ best_combination_overall' =
                IF IsNewBest(n, max_unique_rows_overall)
                THEN combo ELSE best_combination_overall
          /\ IF newMax = Height(df_rows)
             THEN /\ pc' = "returned"
                  /\ reason' = "PerfectKey"
                  /\ idx' = idx
             ELSE /\ pc' = IF idx = Len(filtered_candidate_combinations)
                           THEN "select" ELSE "eval"
                  /\ idx' = idx + 1
                  /\ UNCHANGED reason
    /\ UNCHANGED <<all_columns, df_rows, top_n_to_carry_over, r,
                   filtered_candidate_combinations, previous_stage_top_combinations>>

\* Lines 96-112: one iteration of the evaluation loop, the count taken from df.
Evaluate ==
    /\ pc = "eval"
    /\ EvaluateStep(NUnique(all_columns, df_rows, filtered_candidate_combinations[idx]))
    /\ UNCHANGED <<import_vars, main_vars>>

\* Lines 117-131: the beam of the next stage.
SelectBeamStep ==
    /\ pc = "select"
    /\ previous_stage_top_combinations' =
          TopCombinations(SortedDesc(current_stage_results), top_n_to_carry_over)
    /\ pc' = "loop"
    /\ UNCHANGED <<all_columns, df_rows, top_n_to_carry_over, r,
                   filtered_candidate_combinations, idx, current_stage_results,
                   best_combination_overall, max_unique_rows_overall,
                   num_unique, combo_names_list, reason, evaluated>>

\* Lines 117-131.
SelectBeam ==
    /\ SelectBeamStep
    /\ UNCHANGED <<import_vars, main_vars>>

\* The return of line 133 is never taken.
ReturnExhausted_never == FALSE /\ UNCHANGED vars

\* Line 133: the loop is over.
ReturnExhausted ==
    /\ pc = "loop"
    /\ r >= Len(all_columns)
    /\ pc' = "returned"
    /\ reason' = "Exhausted"
    /\ UNCHANGED <<all_columns, df_rows, top_n_to_carry_over, r,
                   filtered_candidate_combinations, idx, current_stage_results,
                   previous_stage_top_combinations, best_combination_overall,
                   max_unique_rows_overall, num_unique, combo_names_list,
                   evaluated>>
    /\ UNCHANGED <<import_vars, main_vars>>

\* The search of src/find_unique.py keeps no cache.
MainIdle ==
    /\ run = 1
    /\ dataset_id = "none"
    /\ new_cache_entries = <<>>
    /\ queries = {}
    /\ obtained = {}
    /\ first_run = [queries |-> {}, obtained |-> {}, persisted |-> {}]

\* No preload call is made in a behaviour of the search.
ImportIdle ==
    /\ cache_file = [exists |-> FALSE]
    /\ history_file = [exists |-> FALSE]
    /\ parsed_records = <<>>
    /\ historical_dataset_name = "none"
    /\ existing_cache_df = [exists |-> FALSE]
    /\ n_imports = 0
    /\ procs = <<>>

Init == SearchInit /\ ImportIdle /\ MainIdle

Next == StartStage \/ Evaluate \/ SelectBeam \/ ReturnExhausted

Spec == Init /\ [][Next]_vars

\* The function runs in one thread and no step of it waits: a step that can
\* be taken is taken.
SpecFair == Init /\ [][Next]_vars /\ WF_vars(Next)

\* ---------------------------------------------------------------- search: properties

\* The column combinations of df whose distinct count is the row count.
PerfectSets ==
    {S \in (SUBSET Range(all_columns)) \ {{}} :
        NUniqueOf(all_columns, df_rows, S) = Height(df_rows)}

\* The size of a smallest perfect combination.
MinPerfectSize ==
    CHOOSE m \in 1..Len(all_columns) :
        /\ \E S \in PerfectSets : Cardinality(S) = m
        /\ \A S \in PerfectSets : Cardinality(S) >= m

\* C1 as stated: when some combination S is a perfect key and the beam width
\* is at least 1, no stage larger than |S| is evaluated, and the run returns
\* at a stage r <= |S| with a count equal to the row count.
C1_StageAtMostKeySize ==
    (top_n_to_carry_over >= 1 /\ PerfectSets # {}) =>
        /\ pc \in {"eval", "select"} => r <= MinPerfectSize
        /\ pc = "returned" => /\ r <= MinPerfectSize
                              /\ max_unique_rows_overall = Height(df_rows)

\* C1 as amended: when some combination is a perfect key and the beam width is
\* at least 1, the run goes on until it returns, it returns at a stage
\* r <= C (the number of columns) by the early return of line 112, and the
\* returned count and the distinct count of the returned combination equal
\* the row count. The stage may be larger than |S|.
C1_PerfectKeyReturned ==
    (top_n_to_carry_over >= 1 /\ PerfectSets # {}) =>
        /\ r <= Len(all_columns)
        /\ pc # "returned" => ENABLED Next
        /\ pc = "returned" =>
              /\ reason = "PerfectKey"
              /\ max_unique_rows_overall = Height(df_rows)
              /\ NUnique(all_columns, df_rows, best_combination_overall) = Height(df_rows)

\* A run that returned a perfect key at a stage larger than the size of the
\* smallest perfect key.
C1_Witness ==
    /\ top_n_to_carry_over >= 1
    /\ PerfectSets # {}
    /\ pc = "returned"
    /\ Height(df_rows) > 0
    /\ r > MinPerfectSize
    /\ max_unique_rows_overall = Height(df_rows)

\* C2: in every step the running best count does not decrease, and the
\* running best combination changes only to the candidate just evaluated and
\* only when its count is strictly larger than the best count before.
C2_BestMonotone ==
    [][ /\ max_unique_rows_overall' >= max_unique_rows_overall
        /\ best_combination_overall' # best_combination_overall =>
              /\ num_unique' > max_unique_rows_overall
              /\ max_unique_rows_overall' = num_unique'
              /\ best_combination_overall' = combo_names_list'
        /\ max_unique_rows_overall' # max_unique_rows_overall =>
              best_combination_overall' # best_combination_overall ]_vars

\* A candidate whose count equals the best count was evaluated and did not
\* replace the best combination.
C2_Witness ==
    /\ combo_names_list # <<>>
    /\ num_unique = max_unique_rows_overall
    /\ num_unique > 0
    /\ best_combination_overall # combo_names_list
    /\ best_combination_overall # <<>>

\* C3: the beam carried to the next stage holds at most top_n_to_carry_over
\* combinations.
C3_BeamBound ==
    Len(previous_stage_top_combinations) <= top_n_to_carry_over

\* A stage with more evaluated candidates than the beam width was cut down to
\* a full beam.
C3_Witness ==
    /\ pc = "loop"
    /\ r >= 1
    /\ top_n_to_carry_over >= 1
    /\ Len(current_stage_results) > top_n_to_carry_over
    /\ Len(previous_stage_top_combinations) = top_n_to_carry_over

\* C11: a run called with a beam width below 1 is rejected with a
\* configuration error before any candidate is evaluated: it never enters an
\* evaluation loop, its history of evaluations stays empty, and it ends with
\* the reason ConfigurationError.
C11_BeamWidthRejected ==
    top_n_to_carry_over < 1 =>
        /\ evaluated = <<>>
        /\ pc \notin {"eval", "select"}
        /\ pc = "returned" => reason = "ConfigurationError"

\* C12: when the beam left by stage r is empty and a stage r + 1 exists, the
\* next step ends the run with NoCandidates: no candidate is evaluated, no
\* candidate list is built from the full column set, and the running best is
\* what it was.
C12_EmptyBeamStops ==
    [][ ( /\ pc = "loop"
          /\ r >= 1
          /\ r < Len(all_columns)
          /\ previous_stage_top_combinations = <<>> ) =>
          /\ pc' = "returned"
          /\ reason' = "NoCandidates"
          /\ evaluated' = evaluated
          /\ filtered_candidate_combinations' = filtered_candidate_combinations
          /\ best_combination_overall' = best_combination_overall
          /\ max_unique_rows_overall' = max_unique_rows_overall ]_vars

\* Stage 1 was evaluated, left an empty beam and a best combination, and
\* stage 2 ended the run with NoCandidates without an evaluation.
C12_Witness ==
    /\ pc = "returned"
    /\ reason = "NoCandidates"
    /\ r = 2
    /\ previous_stage_top_combinations = <<>>
    /\ Len(evaluated) = Len(all_columns)
    /\ Len(all_columns) >= 2
    /\ best_combination_overall # <<>>

\* The largest count of a history of evaluations, 0 for none.
MaxCount(evals) ==
    IF evals = <<>> THEN 0
    ELSE CHOOSE m \in {evals[i][2] : i \in 1..Len(evals)} :
            \A i \in 1..Len(evals) : evals[i][2] <= m

\* The first candidate of a history of evaluations whose count is m.
FirstReaching(evals, m) ==
    evals[CHOOSE i \in 1..Len(evals) :
            /\ evals[i][2] = m
            /\ \A j \in 1..(i - 1) : evals[j][2] # m][1]

\* C13: whatever ended the run, the returned count is the largest count of
\* the candidates evaluated in the run and the returned combination is the
\* first evaluated candidate with that count; with no evaluation, or no count
\* above 0, the run returns the empty combination and 0.
C13_ReturnsRunningBest ==
    pc = "returned" =>
        /\ max_unique_rows_overall = MaxCount(evaluated)
        /\ best_combination_overall =
              IF MaxCount(evaluated) > 0
              THEN FirstReaching(evaluated, MaxCount(evaluated))
              ELSE <<>>

\* A run that ended without a perfect key after three stages, in which a
\* later candidate reached the count of the returned combination.
C13_Witness ==
    /\ pc = "returned"
    /\ reason = "Exhausted"
    /\ r = 3
    /\ max_unique_rows_overall > 0
    /\ \E i, j \in 1..Len(evaluated) :
          /\ i < j
          /\ evaluated[i][2] = max_unique_rows_overall
          /\ evaluated[j][2] = max_unique_rows_overall
          /\ evaluated[i][1] = best_combination_overall

\* C15: on a dataset of zero rows and at least two columns, with a beam width
\* of at least 1, the run evaluates every single column, goes on to stage 2
\* with an empty beam, and ends there with NoCandidates, returning the empty
\* combination and 0.
C15_ZeroRowsNoCandidates ==
    ( /\ Height(df_rows) = 0
      /\ Len(all_columns) >= 2
      /\ top_n_to_carry_over >= 1 ) =>
        /\ r >= 2 => previous_stage_top_combinations = <<>>
        /\ pc = "returned" =>
              /\ reason = "NoCandidates"
              /\ r = 2
              /\ Len(evaluated) = Len(all_columns)
              /\ \A i \in 1..Len(evaluated) : evaluated[i] = << <<all_columns[i]>>, 0 >>
              /\ best_combination_overall = <<>>
              /\ max_unique_rows_overall = 0

\* The column sets of size k that share a column with a member of the beam;
\* at size 1, every single column.
OverlapSets(cols, k, beam) ==
    {S \in SUBSET Range(cols) :
        /\ Cardinality(S) = k
        /\ k > 1 => \E j \in 1..Len(beam) : S \cap beam[j] # {}}

\* C18: the candidates of a stage are exactly, each once: at stage 1 the
\* single columns; at stage r > 1 the size-r combinations of the columns that
\* share a column with a member of the beam of stage r - 1.
C18_OverlapCandidates ==
    pc \in {"eval", "select"} =>
        LET cands == filtered_candidate_combinations
            expected == OverlapSets(all_columns, r, previous_stage_top_combinations)
        IN /\ {Range(cands[i]) : i \in 1..Len(cands)} = expected
           /\ Len(cands) = Cardinality(expected)
           /\ \A i \in 1..Len(cands) : Len(cands[i]) = r

\* A stage 2 over three columns with the beam <<{B}>>: the two pairs that
\* hold B are its candidates, and the pair {A, C} is left out.
C18_Witness ==
    /\ pc = "eval"
    /\ r = 2
    /\ Len(all_columns) = 3
    /\ Len(previous_stage_top_combinations) = 1
    /\ Len(filtered_candidate_combinations) = 2
    /\ previous_stage_top_combinations[1] = {"B"}

\* C19: an evaluation whose count is the row count is the last evaluation of
\* the run: the run has returned by the perfect-key return, in the stage of
\* that evaluation, and the beam is still the one of the stage before.
C19_StopsAtPerfectKey ==
    \A i \in 1..Len(evaluated) :
        evaluated[i][2] = Len(df_rows) =>
            /\ i = Len(evaluated)
            /\ pc = "returned"
            /\ reason = "PerfectKey"
            /\ Len(evaluated[i][1]) = r
            /\ \A j \in 1..Len(previous_stage_top_combinations) :
                  Cardinality(previous_stage_top_combinations[j]) = r - 1
            /\ r = 1 => previous_stage_top_combinations = <<>>

\* A run returned a perfect key in stage 2 with candidates of the stage left
\* unevaluated.
C19_Witness ==
    /\ pc = "returned"
    /\ reason = "PerfectKey"
    /\ r = 2
    /\ Len(df_rows) > 0
    /\ idx < Len(filtered_candidate_combinations)
    /\ evaluated[Len(evaluated)] =
          <<filtered_candidate_combinations[idx], Len(df_rows)>>

\* C20: after the beam selection of a stage, the beam is the first
\* top_n_to_carry_over of the candidates evaluated in the stage, ranked by
\* count descending and, for equal counts, by order of evaluation: it has
\* Min(top_n_to_carry_over, number of candidates) members, they are in rank
\* order, and every candidate left out ranks after every member.
C20_BeamIsStableTop ==
    (pc = "loop" /\ r >= 1) =>
        LET res == current_stage_results
            beam == previous_stage_top_combinations
            Pos(S) == CHOOSE i \in 1..Len(res) : res[i][1] = S
            RanksBefore(a, b) ==
                \/ res[Pos(a)][2] > res[Pos(b)][2]
                \/ res[Pos(a)][2] = res[Pos(b)][2] /\ Pos(a) < Pos(b)
        IN /\ Len(res) <= Len(evaluated)
           /\ \A i \in 1..Len(res) :
                 LET e == evaluated[Len(evaluated) - Len(res) + i]
                 IN res[i] = <<Range(e[1]), e[2]>>
           /\ Len(beam) = Min(top_n_to_carry_over, Len(res))
           /\ \A j \in 1..Len(beam) : \E i \in 1..Len(res) : res[i][1] = beam[j]
           /\ \A j, k \in 1..Len(beam) : j < k => RanksBefore(beam[j], beam[k])
           /\ \A i \in 1..Len(res) :
                 res[i][1] \notin Range(beam) =>
                    \A j \in 1..Len(beam) : RanksBefore(beam[j], res[i][1])

\* A stage of three candidates was cut to a beam of two, and the candidate
\* left out has the count of the last member, which was evaluated before it.
C20_Witness ==
    /\ pc = "loop"
    /\ r >= 1
    /\ top_n_to_carry_over = 2
    /\ Len(current_stage_results) = 3
    /\ Len(previous_stage_top_combinations) = 2
    /\ current_stage_results[1][2] < current_stage_results[2][2]
    /\ current_stage_results[1][2] = current_stage_results[3][2]
    /\ previous_stage_top_combinations =
          <<current_stage_results[2][1], current_stage_results[1][1]>>

\* C21: every run terminates, and its stages are visited in the order 1, 2,
\* 3, ... up to the number of columns at most: r changes only by a step from
\* the head of the loop that adds 1 to it, the head of the loop is reached
\* again only with the beam selected from the results of all the candidates
\* of stage r, and the run ends by returning.
C21_Terminates ==
    /\ [][ /\ r' \in {r, r + 1}
           /\ r' <= Len(all_columns)
           /\ r' = r + 1 => pc = "loop" /\ pc' \in {"eval", "returned"}
           /\ (pc' = "eval" /\ pc # "eval") => r' = r + 1
           /\ (pc' = "loop" /\ r' >= 1) =>
                 /\ pc = "select"
                 /\ Len(current_stage_results') = Len(filtered_candidate_combinations')
                 /\ Len(previous_stage_top_combinations') =
                       Min(top_n_to_carry_over, Len(current_stage_results'))
                 /\ \A j \in 1..Len(previous_stage_top_combinations') :
                       Cardinality(previous_stage_top_combinations'[j]) = r'
           /\ pc = "returned" => pc' = "returned" ]_vars
    /\ <>(pc = "returned")

\* A run went through three stages, each with its beam selection, and
\* returned after the last.
C21_Witness ==
    /\ pc = "returned"
    /\ reason = "Exhausted"
    /\ r = 3
    /\ Len(all_columns) = 3
    /\ \E i, j, k \in 1..Len(evaluated) :
          /\ i < j
          /\ j < k
          /\ Len(evaluated[i][1]) = 1
          /\ Len(evaluated[j][1]) = 2
          /\ Len(evaluated[k][1]) = 3

\* C22: a candidate evaluated at stage r is a list of r different column
\* names of the DataFrame, and its column set has not been evaluated before
\* in the stage (nor in the run).
C22_CandidatesWellFormed ==
    [][ evaluated' # evaluated =>
          LET cand == evaluated'[Len(evaluated')][1]
          IN /\ evaluated' = Append(evaluated, <<cand, num_unique'>>)
             /\ Len(cand) = r
             /\ Cardinality(Range(cand)) = r
             /\ Range(cand) \subseteq Range(all_columns)
             /\ \A i \in 1..Len(evaluated) : Range(evaluated[i][1]) # Range(cand)
       ]_vars

\* Stage 2 over three columns evaluated three candidates.
C22_Witness ==
    /\ pc = "select"
    /\ r = 2
    /\ Len(filtered_candidate_combinations) = 3
    /\ Len(evaluated) = 6
    /\ Len(current_stage_results) = 3

\* The largest distinct count of a combination of the columns.
MaxOverCombinations ==
    CHOOSE m \in 0..Height(df_rows) :
        /\ \E S \in SUBSET Range(all_columns) : NUniqueOf(all_columns, df_rows, S) = m
        /\ \A S \in SUBSET Range(all_columns) : NUniqueOf(all_columns, df_rows, S) <= m

\* C24: with at least one column, at least one row and a beam width of at
\* least 1, no stage is left with an empty beam or without candidates; the
\* run ends only by a perfect key or after the last stage, and the returned
\* count is the distinct count of all the columns together, the largest of
\* any combination.
C24_ReachesFullCount ==
    ( /\ Len(all_columns) >= 1
      /\ Height(df_rows) >= 1
      /\ top_n_to_carry_over >= 1 ) =>
        /\ reason \notin {"NoCandidates"}
        /\ (pc = "loop" /\ r >= 1) => previous_stage_top_combinations # <<>>
        /\ pc \in {"eval", "select"} => filtered_candidate_combinations # <<>>
        /\ pc = "returned" =>
              /\ reason \in {"PerfectKey", "Exhausted"}
              /\ reason = "Exhausted" => r = Len(all_columns)
              /\ max_unique_rows_overall =
                    NUniqueOf(all_columns, df_rows, Range(all_columns))
              /\ max_unique_rows_overall = MaxOverCombinations

\* A run with a beam of one went through all three stages without a perfect
\* key and returned the count of the three columns together, first reached
\* by a pair of columns and by no single column.
C24_Witness ==
    /\ pc = "returned"
    /\ reason = "Exhausted"
    /\ top_n_to_carry_over = 1
    /\ Len(all_columns) = 3
    /\ r = 3
    /\ Len(best_combination_overall) = 2
    /\ max_unique_rows_overall < Height(df_rows)
    /\ max_unique_rows_overall = NUniqueOf(all_columns, df_rows, Range(all_columns))

\* ---------------------------------------------------------------- search: the four-column scenario

\* The columns of the scenario's DataFrame, in DataFrame order.
ScenarioColumnNames == <<"id", "name", "city", "age">>

\* The row positions of the scenario's DataFrame.
ScenarioRowIdx == 1..6

\* The beam width of the scenario.
ScenarioBeamWidths == {3}

\* The columns a scenario DataFrame is made of, each as its six cells: one
\* value, six values, two alternating values, four values (in two groupings)
\* and three values.
ScenarioColumns ==
    { <<0, 0, 0, 0, 0, 0>>, <<0, 1, 2, 3, 4, 5>>, <<0, 1, 0, 1, 0, 1>>,
      <<0, 0, 0, 1, 2, 3>>, <<0, 0, 1, 1, 2, 3>>, <<0, 1, 2, 0, 0, 0>> }

\* Lines 25-37, for the DataFrames of four of these columns.
InitScenario ==
    /\ all_columns = ScenarioColumnNames
    /\ \E cells \in [1..Len(ScenarioColumnNames) -> ScenarioColumns] :
          df_rows = [i \in ScenarioRowIdx |->
                        [c \in 1..Len(ScenarioColumnNames) |-> cells[c][i]]]
    /\ top_n_to_carry_over \in ScenarioBeamWidths
    /\ pc = "loop"
    /\ r = 0
    /\ filtered_candidate_combinations = <<>>
    /\ idx = 0
    /\ current_stage_results = <<>>
    /\ previous_stage_top_combinations = <<>>
    /\ best_combination_overall = <<>>
    /\ max_unique_rows_overall = 0
    /\ num_unique = 0
    /\ combo_names_list = <<>>
    /\ reason = "none"
    /\ evaluated = <<>>
    /\ ImportIdle
    /\ MainIdle

SpecScenario == InitScenario /\ [][Next]_vars

\* The scenario: columns [id, name, city, age], six rows, id with 4 distinct
\* values, {id, name} with 6, beam width 3.
ScenarioHolds ==
    /\ all_columns = ScenarioColumnNames
    /\ Height(df_rows) = 6
    /\ top_n_to_carry_over = 3
    /\ NUniqueOf(all_columns, df_rows, {"id"}) = 4
    /\ NUniqueOf(all_columns, df_rows, {"id", "name"}) = 6

\* The run goes on to stage 2, whose evaluations follow those of the four
\* single columns and whose candidates include {id, name}, and returns there
\* with {id, name} and 6.
ScenarioOutcome ==
    /\ r <= 2
    /\ pc # "returned" => ENABLED Next
    /\ r = 2 =>
          /\ Len(evaluated) >= 4
          /\ \A i \in 1..4 : evaluated[i][1] = <<ScenarioColumnNames[i]>>
          /\ \A i \in 5..Len(evaluated) : Len(evaluated[i][1]) = 2
          /\ \E i \in 1..Len(filtered_candidate_combinations) :
                Range(filtered_candidate_combinations[i]) = {"id", "name"}
    /\ pc = "returned" =>
          /\ r = 2
          /\ reason = "PerfectKey"
          /\ Range(best_combination_overall) = {"id", "name"}
          /\ max_unique_rows_overall = 6

\* C14 as stated: in the scenario, stage 1 evaluates the four single columns,
\* stage 2 has {id, name} among its candidates, and the run terminates at
\* stage 2 returning {id, name} with count 6.
C14_ScenarioStage2 == ScenarioHolds => ScenarioOutcome

\* C14 as amended: the same, for the datasets of the scenario in which no
\* single column has 6 distinct values (one that has ends the run at stage 1).
C14_ScenarioNoSingleKey ==
    ( /\ ScenarioHolds
      /\ \A c \in Range(all_columns) : NUniqueOf(all_columns, df_rows, {c}) < 6 ) =>
        ScenarioOutcome

\* A run of the scenario returned {id, name} with 6 at stage 2, after the
\* four single columns, with city among the beam of stage 1.
C14_Witness ==
    /\ ScenarioHolds
    /\ pc = "returned"
    /\ r = 2
    /\ Len(evaluated) = 5
    /\ evaluated[5] = << <<"id", "name">>, 6 >>
    /\ best_combination_overall = <<"id", "name">>
    /\ {"city"} \in Range(previous_stage_top_combinations)

\* ---------------------------------------------------------------- history import

\* The column names of the history logs and of the cache, in the order
\* sorted() gives strings.
HistColumns == <<"city", "id", "name">>

\* The column lists written in the brackets of a "Testing [...]" line.
WrittenColumns == {<<"id">>, <<"id", "name">>, <<"name", "id">>}

\* The "N unique rows (P%)" of a line: <<N, P>>.
LineStats == {<<4, 67>>, <<6, 100>>}

\* The dataset names a call is made with.
DatasetNames == {"sample_data_v1", "other_data"}

\* os.path.exists(path) is false, or open(path) raises FileNotFoundError.
NoFile == [exists |-> FALSE]

\* A file that exists, with its lines or rows.
File(content) == [exists |-> TRUE, content |-> content]

\* A line of a history log: one the pattern of line 29 matches, or another.
LogLines ==
    {[kind |-> "testing", columns |-> c, num_unique |-> st[1], percentage |-> st[2]] :
        c \in WrittenColumns, st \in LineStats}
    \cup {[kind |-> "other"]}

\* The numbers of lines of the modelled history logs.
LogLengths == 0..2

\* The history files: no file, or a file of lines.
HistoryFiles == {NoFile} \cup {File(l) : l \in UNION {[1..n -> LogLines] : n \in LogLengths}}

\* Position of a name in the order of strings.
NameRank(c) == CHOOSE i \in 1..Len(HistColumns) : HistColumns[i] = c

RECURSIVE InsertByName(_, _)
InsertByName(c, s) ==
    IF s = <<>> THEN <<c>>
    ELSE IF NameRank(Head(s)) <= NameRank(c)
         THEN <<Head(s)>> \o InsertByName(c, Tail(s))
         ELSE <<c>> \o s

\* Line 51: sorted(columns).
RECURSIVE SortedColumns(_)
SortedColumns(columns) ==
    IF columns = <<>> THEN <<>>
    ELSE InsertByName(columns[Len(columns)],
                      SortedColumns(SubSeq(columns, 1, Len(columns) - 1)))

\* Line 51 without the sort: the columns as written.
ParsedColumns_unsorted(columns) == columns

\* Lines 42 and 51: the column list of a parsed record.
ParsedColumns(columns) == SortedColumns(columns)

\* Line 51: percentage / 100.0, kept as the fraction <<numerator, denominator>>.
Fraction(percentage) == <<percentage, 100>>

\* Lines 36-51: the records of the lines the pattern matches, in file order.
RECURSIVE ParseLines(_)
ParseLines(lines) ==
    IF lines = <<>> THEN <<>>
    ELSE LET line == Head(lines)
         IN IF line.kind = "testing"
            THEN << <<ParsedColumns(line.columns), line.num_unique,
                      Fraction(line.percentage)>> >> \o ParseLines(Tail(lines))
            ELSE ParseLines(Tail(lines))

\* A missing file gives a record.
ParseHistoryLog_default(file) ==
    IF ~file.exists THEN << << <<"id">>, 4, <<67, 100>> >> >>
    ELSE ParseLines(file.content)

\* Lines 14-58: parse_history_log; a missing file gives no records.
ParseHistoryLog(file) ==
    IF ~file.exists THEN <<>> ELSE ParseLines(file.content)

\* Only the first record is taken.
NewHistoryDf_first(records, name) ==
    [i \in 1..Min(1, Len(records)) |->
        [dataset_name |-> name, columns |-> records[i][1],
         num_unique |-> records[i][2], unique_percentage |-> records[i][3]]]

\* Lines 83-92: new_history_df.
NewHistoryDf(records, name) ==
    [i \in 1..Len(records) |->
        [dataset_name |-> name, columns |-> records[i][1],
         num_unique |-> records[i][2], unique_percentage |-> records[i][3]]]

\* The subset of line 105: the key of a row.
KeyOf(row) == <<row.dataset_name, row.columns>>

\* unique(subset=..., keep="last"): the last row of each key.
Unique_keeplast(df) ==
    LET keep == {i \in 1..Len(df) : \A j \in (i + 1)..Len(df) : KeyOf(df[j]) # KeyOf(df[i])}
        Pick[i \in 0..Len(df)] ==
            IF i = 0 THEN <<>>
            ELSE IF i \in keep THEN Append(Pick[i - 1], df[i]) ELSE Pick[i - 1]
    IN Pick[Len(df)]

\* Line 105: unique(subset=["dataset_name", "columns"], keep="first"): the
\* first row of each key. The rows are listed in the order of the frame;
\* polars leaves the order open, and no key is left twice, so a later call
\* keeps the same rows whatever the order.
Unique(df) ==
    LET keep == {i \in 1..Len(df) : \A j \in 1..(i - 1) : KeyOf(df[j]) # KeyOf(df[i])}
        Pick[i \in 0..Len(df)] ==
            IF i = 0 THEN <<>>
            ELSE IF i \in keep THEN Append(Pick[i - 1], df[i]) ELSE Pick[i - 1]
    IN Pick[Len(df)]

\* The new rows first: pl.concat([new_history_df, existing_cache_df]).
Concat_newfirst(existing, new) == new \o existing

\* Line 101: pl.concat([existing_cache_df, new_history_df]).
Concat(existing, new) == existing \o new

\* The existing rows are dropped.
FinalDf_newonly(existing, new) == new

\* Lines 95-113: final_df.
FinalDf(existing, new) ==
    IF existing.exists THEN Unique(Concat(existing.content, new)) ELSE new

\* The state before the first call: no cache file (lines 144-146 remove it).
ImportInit ==
    /\ cache_file = [exists |-> FALSE]
    /\ history_file = [exists |-> FALSE]
    /\ parsed_records = <<>>
    /\ historical_dataset_name = "none"
    /\ existing_cache_df = [exists |-> FALSE]
    /\ n_imports = 0
    /\ procs = <<>>

\* Lines 76-80: a call whose log gives no records returns without writing.
PreloadNoRecords ==
    /\ n_imports < MaxImports
    /\ \E file \in HistoryFiles, name \in DatasetNames :
          /\ ParseHistoryLog(file) = <<>>
          /\ history_file' = file
          /\ parsed_records' = <<>>
          /\ historical_dataset_name' = name
    /\ existing_cache_df' = cache_file
    /\ n_imports' = n_imports + 1
    /\ UNCHANGED <<cache_file, procs>>
    /\ UNCHANGED <<search_vars, main_vars>>

\* Lines 76-116 with the cache file present: concat, unique, write.
PreloadExisting ==
    /\ n_imports < MaxImports
    /\ cache_file.exists
    /\ \E file \in HistoryFiles, name \in DatasetNames :
          /\ ParseHistoryLog(file) # <<>>
          /\ history_file' = file
          /\ parsed_records' = ParseHistoryLog(file)
          /\ historical_dataset_name' = name
          /\ cache_file' = File(FinalDf(cache_file, NewHistoryDf(ParseHistoryLog(file), name)))
    /\ existing_cache_df' = cache_file
    /\ n_imports' = n_imports + 1
    /\ UNCHANGED <<search_vars, main_vars, procs>>

\* Lines 76-116 with no cache file: new_history_df is written as it is.
PreloadNew ==
    /\ n_imports < MaxImports
    /\ ~cache_file.exists
    /\ \E file \in HistoryFiles, name \in DatasetNames :
          /\ ParseHistoryLog(file) # <<>>
          /\ history_file' = file
          /\ parsed_records' = ParseHistoryLog(file)
          /\ historical_dataset_name' = name
          /\ cache_file' = File(FinalDf(cache_file, NewHistoryDf(ParseHistoryLog(file), name)))
    /\ existing_cache_df' = cache_file
    /\ n_imports' = n_imports + 1
    /\ UNCHANGED <<search_vars, main_vars, procs>>

\* No search runs in a behaviour of the import.
SearchIdle ==
    /\ all_columns = <<>>
    /\ df_rows = <<>>
    /\ top_n_to_carry_over = 0
    /\ pc = "idle"
    /\ r = 0
    /\ filtered_candidate_combinations = <<>>
    /\ idx = 0
    /\ current_stage_results = <<>>
    /\ previous_stage_top_combinations = <<>>
    /\ best_combination_overall = <<>>
    /\ max_unique_rows_overall = 0
    /\ num_unique = 0
    /\ combo_names_list = <<>>
    /\ reason = "none"
    /\ evaluated = <<>>

InitImport == ImportInit /\ SearchIdle /\ MainIdle

NextImport == PreloadNoRecords \/ PreloadExisting \/ PreloadNew

SpecImport == InitImport /\ [][NextImport]_vars

\* ---------------------------------------------------------------- history import: properties

\* The rows of a frame stored under a key, in the order of the frame.
RowsUnder(df, key) == SelectSeq(df, LAMBDA row : KeyOf(row) = key)

\* A step is a call of preload_cache_from_history.
ImportStep == n_imports' = n_imports + 1

\* C5: an import prefers what is stored: for every key of the store before
\* the call, the key is still stored after it, the first row stored under it
\* is the one that was first before, and every row stored under it after the
\* call was stored under it before, whatever the incoming record says.
C5_ExistingPreferred ==
    [][ (ImportStep /\ cache_file.exists) =>
          /\ cache_file'.exists
          /\ \A i \in 1..Len(cache_file.content) :
                LET key == KeyOf(cache_file.content[i])
                    before == RowsUnder(cache_file.content, key)
                    after == RowsUnder(cache_file'.content, key)
                IN /\ after # <<>>
                   /\ after[1] = before[1]
                   /\ Range(after) \subseteq Range(before) ]_vars

\* The last call brought a record for a stored key with another count, and
\* the store holds the key with the count it had.
C5_Witness ==
    /\ n_imports >= 2
    /\ existing_cache_df.exists
    /\ cache_file.exists
    /\ \E i \in 1..Len(parsed_records) : \E j \in 1..Len(existing_cache_df.content) :
          LET row == existing_cache_df.content[j]
              key == <<historical_dataset_name, parsed_records[i][1]>>
          IN /\ KeyOf(row) = key
             /\ row.num_unique # parsed_records[i][2]
             /\ RowsUnder(cache_file.content, key) = <<row>>

\* C6: the store holds at most one record per (dataset name, columns) key.
C6_OneRecordPerKey ==
    cache_file.exists =>
        \A i, j \in 1..Len(cache_file.content) :
            i # j => KeyOf(cache_file.content[i]) # KeyOf(cache_file.content[j])

\* C7: a call with the log and the dataset name of the call before it leaves
\* the set of stored records as it is and adds no record.
C7_ImportIdempotent ==
    [][ ( /\ ImportStep
          /\ n_imports >= 1
          /\ history_file' = history_file
          /\ historical_dataset_name' = historical_dataset_name ) =>
          /\ cache_file'.exists = cache_file.exists
          /\ cache_file.exists =>
                /\ Range(cache_file'.content) = Range(cache_file.content)
                /\ Len(cache_file'.content) <= Len(cache_file.content) ]_vars

\* C8: every record of the store before a call is in the store after it,
\* with its count and fraction, whatever its dataset name.
C8_RecordsKept ==
    [][ (ImportStep /\ cache_file.exists) =>
          /\ cache_file'.exists
          /\ Range(cache_file.content) \subseteq Range(cache_file'.content) ]_vars

\* C9: after a call whose log holds records for two column lists with the
\* same names in different orders, the store holds exactly one entry for that
\* column set under the dataset name of the call.
C9_OneEntryPerColumnSet ==
    (history_file.exists /\ parsed_records # <<>>) =>
        \A i, j \in 1..Len(history_file.content) :
            LET a == history_file.content[i]
                b == history_file.content[j]
            IN ( /\ a.kind = "testing"
                 /\ b.kind = "testing"
                 /\ a.columns # b.columns
                 /\ Range(a.columns) = Range(b.columns) ) =>
               /\ cache_file.exists
               /\ Cardinality({k \in 1..Len(cache_file.content) :
                     /\ cache_file.content[k].dataset_name = historical_dataset_name
                     /\ Range(cache_file.content[k].columns) = Range(a.columns)}) = 1

\* C17 as stated: a call that finds no store completes, and after it the
\* store exists and holds an entry for every key parsed from the log.
C17_MissingStoreCreated ==
    [][ (ImportStep /\ ~cache_file.exists) =>
          /\ cache_file'.exists
          /\ \A i \in 1..Len(parsed_records') :
                <<historical_dataset_name', parsed_records'[i][1]>>
                    \in {KeyOf(cache_file'.content[k]) : k \in 1..Len(cache_file'.content)}
       ]_vars

\* C17 as amended: a call that finds no store completes; when the log gave at
\* least one record the store exists after it and holds an entry for every
\* key parsed from the log, and when the log gave none (no log, or no line
\* the pattern matches) the call returns without writing and the store is
\* still missing.
C17_MissingStoreTolerated ==
    [][ (ImportStep /\ ~cache_file.exists) =>
          IF parsed_records' # <<>>
          THEN /\ cache_file'.exists
               /\ \A i \in 1..Len(parsed_records') :
                     <<historical_dataset_name', parsed_records'[i][1]>>
                         \in {KeyOf(cache_file'.content[k]) :
                                 k \in 1..Len(cache_file'.content)}
          ELSE ~cache_file'.exists ]_vars

\* The first call found no store, parsed two records of different keys, and
\* left a store holding both keys.
C17_Witness ==
    /\ n_imports = 1
    /\ ~existing_cache_df.exists
    /\ cache_file.exists
    /\ Len(parsed_records) = 2
    /\ parsed_records[1][1] # parsed_records[2][1]
    /\ \A i \in 1..2 :
          RowsUnder(cache_file.content,
                    <<historical_dataset_name, parsed_records[i][1]>>) # <<>>

\* C25: a call whose log is missing, or has no line the pattern matches,
\* writes nothing: the store is after the call what it was before, present
\* with the same rows or missing.
C25_NoRecordsNoWrite ==
    [][ ( /\ ImportStep
          /\ \/ ~history_file'.exists
             \/ \A i \in 1..Len(history_file'.content) :
                   history_file'.content[i].kind # "testing" ) =>
          cache_file' = cache_file ]_vars

\* A call with a log of two lines, none of them a record, was made against a
\* store an earlier call had written, and the store is as that call found it.
C25_Witness ==
    /\ n_imports = 2
    /\ history_file.exists
    /\ Len(history_file.content) = 2
    /\ parsed_records = <<>>
    /\ existing_cache_df.exists
    /\ cache_file = existing_cache_df

\* ---------------------------------------------------------------- strict-extension policy

\* The columns of the DataFrames searched under the strict-extension policy.
StrictColumnNames == <<"A", "B", "C", "D">>

\* Largest number of rows of a DataFrame searched under that policy.
MaxRowsStrict == 3

\* A column set in canonical form: its names in sorted order, which for the
\* modelled names is the order of df.columns.
Canonical(cols, colset) == SelectSeq(cols, LAMBDA c : c \in colset)

\* The children of one beam member: one per column not in it, in column
\* order, without those in seen.
RECURSIVE ChildrenOf(_, _, _, _)
ChildrenOf(cols, rest, parent, seen) ==
    IF rest = <<>> THEN <<>>
    ELSE LET child == Canonical(cols, parent \cup {Head(rest)})
         IN IF Head(rest) \in parent \/ child \in seen
            THEN ChildrenOf(cols, Tail(rest), parent, seen)
            ELSE <<child>> \o ChildrenOf(cols, Tail(rest), parent, seen \cup {child})

\* The children of the beam members, parent by parent, each child once.
RECURSIVE ExtendBeam(_, _, _)
ExtendBeam(cols, beam, seen) ==
    IF beam = <<>> THEN <<>>
    ELSE LET first == ChildrenOf(cols, cols, Head(beam), seen)
         IN first \o ExtendBeam(cols, Tail(beam), seen \cup Range(first))

\* The candidates of the overlap policy, whatever the policy asked for.
StrictCandidates_overlap(cols, k, beam) == FilteredCandidates(cols, k, beam)

\* The strict-extension policy: at stage 1 every single column, later the
\* one-column extensions of the beam members.
StrictCandidates(cols, k, beam) ==
    IF k = 1 THEN Combinations(cols, k)
    ELSE ExtendBeam(cols, beam, {})

\* The start of a stage under the strict-extension policy.
StrictStartStage ==
    StageStart(StrictCandidates(all_columns, r + 1, previous_stage_top_combinations))

InitStrict ==
    /\ \E n \in 0..Len(StrictColumnNames) :
          /\ all_columns = SubSeq(StrictColumnNames, 1, n)
          /\ df_rows \in DataFrames(n, MaxRowsStrict)
    /\ top_n_to_carry_over \in 0..MaxTopN
    /\ pc = "loop"
    /\ r = 0
    /\ filtered_candidate_combinations = <<>>
    /\ idx = 0
    /\ current_stage_results = <<>>
    /\ previous_stage_top_combinations = <<>>
    /\ best_combination_overall = <<>>
    /\ max_unique_rows_overall = 0
    /\ num_unique = 0
    /\ combo_names_list = <<>>
    /\ reason = "none"
    /\ evaluated = <<>>
    /\ ImportIdle
    /\ MainIdle

NextStrict == StrictStartStage \/ Evaluate \/ SelectBeam \/ ReturnExhausted

SpecStrict == InitStrict /\ [][NextStrict]_vars

\* C10: under the strict-extension policy every candidate of a stage r > 1,
\* and so every candidate evaluated there, is a beam member of stage r - 1
\* with exactly one more column.
C10_StrictExtension ==
    (pc \in {"eval", "select"} /\ r > 1) =>
        \A i \in 1..Len(filtered_candidate_combinations) :
            LET cand == Range(filtered_candidate_combinations[i])
            IN /\ Cardinality(cand) = r
               /\ \E j \in 1..Len(previous_stage_top_combinations) :
                     /\ previous_stage_top_combinations[j] \subseteq cand
                     /\ previous_stage_top_combinations[j] # cand
                     /\ Cardinality(cand \ previous_stage_top_combinations[j]) = 1

\* A stage 3 under the strict-extension policy was evaluated to its end, and
\* its candidates were fewer than those sharing a column with the beam.
C10_Witness ==
    /\ pc = "select"
    /\ r = 3
    /\ combo_names_list = filtered_candidate_combinations[Len(filtered_candidate_combinations)]
    /\ Len(filtered_candidate_combinations) <
          Len(FilteredCandidates(all_columns, r, previous_stage_top_combinations))

\* ---------------------------------------------------------------- search with the persistent cache

\* The columns of the DataFrames searched with the cache, in DataFrame order
\* (which is not the sorted order of the names).
CachedColumnNames == <<"name", "id", "city">>

\* Largest number of rows of a DataFrame searched with the cache.
MaxRowsCached == 3

\* The cache key of a candidate: the dataset identifier and the column names
\* in sorted order.
CacheKey(id, combo) == <<id, SortedColumns(combo)>>

\* A lookup that never hits.
CacheLookup_miss(file, key) == [hit |-> FALSE, count |-> 0]

\* A point lookup in the store: a hit returns the stored count unchanged; a
\* missing store holds nothing.
CacheLookup(file, key) ==
    IF file.exists /\ RowsUnder(file.content, key) # <<>>
    THEN [hit |-> TRUE, count |-> RowsUnder(file.content, key)[1].num_unique]
    ELSE [hit |-> FALSE, count |-> 0]

\* The record staged for a miss: the count, and the fraction count / total
\* kept as <<numerator, denominator>>.
CacheEntry(key, n, total) ==
    [dataset_name |-> key[1], columns |-> key[2], num_unique |-> n,
     unique_percentage |-> <<n, total>>]

\* The batched durable write of the staged records; a missing store is
\* created by the first write.
CacheAppend(file, entries) ==
    IF entries = <<>> THEN file
    ELSE File((IF file.exists THEN file.content ELSE <<>>) \o entries)

\* The keys of the persisted store.
StoredKeys(file) ==
    IF file.exists THEN {KeyOf(file.content[i]) : i \in 1..Len(file.content)} ELSE {}

\* The first run: no store yet.
InitCached ==
    /\ \E n \in 1..Len(CachedColumnNames) :
          /\ all_columns = SubSeq(CachedColumnNames, 1, n)
          /\ df_rows \in DataFrames(n, MaxRowsCached)
    /\ top_n_to_carry_over \in 1..MaxTopN
    /\ pc = "loop"
    /\ r = 0
    /\ filtered_candidate_combinations = <<>>
    /\ idx = 0
    /\ current_stage_results = <<>>
    /\ previous_stage_top_combinations = <<>>
    /\ best_combination_overall = <<>>
    /\ max_unique_rows_overall = 0
    /\ num_unique = 0
    /\ combo_names_list = <<>>
    /\ reason = "none"
    /\ evaluated = <<>>
    /\ ImportIdle
    /\ run = 1
    /\ dataset_id = "sample_data_v1"
    /\ new_cache_entries = <<>>
    /\ queries = {}
    /\ obtained = {}
    /\ first_run = [queries |-> {}, obtained |-> {}, persisted |-> {}]

\* The Evaluator for one candidate: the store is consulted first; on a miss
\* the dataset is asked and the result is staged. A perfect key ends the run
\* in the middle of the stage; the design ties the batched write to the end
\* of the stage's evaluation loop and leaves open whether such a return
\* writes what the stage has staged, so both outcomes are modelled.
CachedEvaluate ==
    /\ pc = "eval"
    /\ LET combo == filtered_candidate_combinations[idx]
           key == CacheKey(dataset_id, combo)
           found == CacheLookup(cache_file, key)
           n == IF found.hit THEN found.count
                ELSE NUnique(all_columns, df_rows, combo)
           staged == IF found.hit THEN new_cache_entries
                     ELSE Append(new_cache_entries, CacheEntry(key, n, Height(df_rows)))
       IN /\ EvaluateStep(n)
          /\ obtained' = obtained \cup {<<key, n>>}
          /\ queries' = IF found.hit THEN queries ELSE queries \cup {key}
          /\ IF pc' = "returned"
             THEN /\ cache_file' \in {cache_file, CacheAppend(cache_file, staged)}
                  /\ new_cache_entries' = <<>>
             ELSE /\ new_cache_entries' = staged
                  /\ UNCHANGED cache_file
    /\ UNCHANGED <<history_file, parsed_records, historical_dataset_name,
                   existing_cache_df, n_imports, procs, run, dataset_id, first_run>>

\* EvaluationFailure: the dataset's query for a candidate the store does not
\* hold fails, and the run is aborted; what was written stays, what the
\* stage has staged is lost.
EvaluationFailure ==
    /\ pc = "eval"
    /\ ~CacheLookup(cache_file,
                    CacheKey(dataset_id, filtered_candidate_combinations[idx])).hit
    /\ pc' = "returned"
    /\ reason' = "EvaluationFailure"
    /\ new_cache_entries' = <<>>
    /\ UNCHANGED <<all_columns, df_rows, top_n_to_carry_over, r,
                   filtered_candidate_combinations, idx, current_stage_results,
                   previous_stage_top_combinations, best_combination_overall,
                   max_unique_rows_overall, num_unique, combo_names_list,
                   evaluated>>
    /\ UNCHANGED <<import_vars, run, dataset_id, queries, obtained, first_run>>

\* The end of a stage's evaluation loop: the batched write, then the Beam
\* Selector.
CachedSelectBeam ==
    /\ SelectBeamStep
    /\ cache_file' = CacheAppend(cache_file, new_cache_entries)
    /\ new_cache_entries' = <<>>
    /\ UNCHANGED <<history_file, parsed_records, historical_dataset_name,
                   existing_cache_df, n_imports, procs, run, dataset_id, queries,
                   obtained, first_run>>

\* A second run against the store the first left: a new process (lines
\* 25-37), with its own beam width and dataset identifier, on the dataset of
\* the first run or on that dataset with its last row gone.
StartSecondRun ==
    /\ pc = "returned"
    /\ run = 1
    /\ run' = 2
    /\ first_run' = [queries |-> queries, obtained |-> obtained,
                     persisted |-> StoredKeys(cache_file)]
    /\ dataset_id' \in DatasetNames
    /\ top_n_to_carry_over' \in 1..MaxTopN
    /\ df_rows' \in {df_rows, SubSeq(df_rows, 1, Len(df_rows) - 1)}
    /\ pc' = "loop"
    /\ r' = 0
    /\ filtered_candidate_combinations' = <<>>
    /\ idx' = 0
    /\ current_stage_results' = <<>>
    /\ previous_stage_top_combinations' = <<>>
    /\ best_combination_overall' = <<>>
    /\ max_unique_rows_overall' = 0
    /\ num_unique' = 0
    /\ combo_names_list' = <<>>
    /\ reason' = "none"
    /\ evaluated' = <<>>
    /\ new_cache_entries' = <<>>
    /\ queries' = {}
    /\ obtained' = {}
    /\ UNCHANGED <<all_columns, import_vars>>

NextCached ==
    \/ StartStage
    \/ CachedEvaluate
    \/ EvaluationFailure
    \/ CachedSelectBeam
    \/ ReturnExhausted
    \/ StartSecondRun

SpecCached == InitCached /\ [][NextCached]_vars

\* The keys evaluated in a run, given its <<key, count>> pairs.
KeysOf(pairs) == {p[1] : p \in pairs}

SeededColumnNames == SubSeq(CachedColumnNames, 1, 2)

\* Largest number of rows of a DataFrame searched on a seeded store.
MaxRowsSeeded == 2

\* Before the import: no store, no search.
InitSeeded == ImportInit /\ SearchIdle /\ MainIdle

\* One call of preload_cache_from_history against the missing store.
SeedStore ==
    /\ n_imports = 0
    /\ PreloadNoRecords \/ PreloadNew

\* A search started after the import (lines 25-37), with its DataFrame, beam
\* width and dataset identifier.
StartSeededSearch ==
    /\ pc = "idle"
    /\ n_imports = 1
    /\ all_columns' = SeededColumnNames
    /\ df_rows' \in DataFrames(Len(SeededColumnNames), MaxRowsSeeded)
    /\ top_n_to_carry_over' \in 1..MaxTopN
    /\ dataset_id' \in DatasetNames
    /\ pc' = "loop"
    /\ UNCHANGED <<r, filtered_candidate_combinations, idx, current_stage_results,
                   previous_stage_top_combinations, best_combination_overall,
                   max_unique_rows_overall, num_unique, combo_names_list, reason,
                   evaluated>>
    /\ UNCHANGED <<import_vars, run, new_cache_entries, queries, obtained, first_run>>

NextSeeded ==
    \/ SeedStore
    \/ StartSeededSearch
    \/ StartStage
    \/ CachedEvaluate
    \/ EvaluationFailure
    \/ CachedSelectBeam
    \/ ReturnExhausted

SpecSeeded == InitSeeded /\ [][NextSeeded]_vars

\* What the import wrote to the store.
SeededStore ==
    FinalDf(existing_cache_df, NewHistoryDf(parsed_records, historical_dataset_name))

\* C16: in a search that follows an import, with the dataset identifier of
\* the import, no record the import wrote to the store has its key queried
\* from the dataset, and an evaluation of its key obtains its count.
C16_SeededRecordReused ==
    (pc # "idle" /\ parsed_records # <<>> /\ dataset_id = historical_dataset_name) =>
        \A k \in 1..Len(SeededStore) :
            LET key == KeyOf(SeededStore[k])
            IN /\ key \notin queries
               /\ \A p \in obtained : p[1] = key => p[2] = SeededStore[k].num_unique

\* A search evaluated {name, id}, written in the log as ['name', 'id'] and
\* seeded once, without a query, and obtained the seeded count, which is not
\* the count of the dataset.
C16_Reached ==
    /\ pc # "idle"
    /\ dataset_id = historical_dataset_name
    /\ Len(SeededStore) = 1
    /\ history_file.content[1].kind = "testing"
    /\ history_file.content[1].columns = <<"name", "id">>
    /\ combo_names_list = <<"name", "id">>
    /\ <<KeyOf(SeededStore[1]), SeededStore[1].num_unique>> \in obtained
    /\ KeyOf(SeededStore[1]) \notin queries
    /\ num_unique # NUnique(all_columns, df_rows, combo_names_list)

\* ---------------------------------------------------------------- two calls of the import at the same time

\* The two calls of preload_cache_from_history that share one cache_path.
Procs == {1, 2}

\* Both calls are about to start; there is no cache file.
InitConcurrent ==
    /\ cache_file = NoFile
    /\ history_file = NoFile
    /\ parsed_records = <<>>
    /\ historical_dataset_name = "none"
    /\ existing_cache_df = NoFile
    /\ n_imports = 0
    /\ procs = [p \in Procs |->
                  [pc |-> "start", parsed_records |-> <<>>,
                   historical_dataset_name |-> "none",
                   existing_cache_df |-> NoFile, after |-> {}]]
    /\ SearchIdle
    /\ MainIdle

\* Lines 76-80 in call p: the log gives no records and the call returns.
ConcNoRecords(p) ==
    /\ procs[p].pc = "start"
    /\ \E file \in HistoryFiles, name \in DatasetNames :
          /\ ParseHistoryLog(file) = <<>>
          /\ procs' = [procs EXCEPT ![p].pc = "done",
                                    ![p].historical_dataset_name = name]
    /\ n_imports' = n_imports + 1
    /\ UNCHANGED <<cache_file, history_file, parsed_records,
                   historical_dataset_name, existing_cache_df>>
    /\ UNCHANGED <<search_vars, main_vars>>

\* Lines 76-97 in call p: the log is parsed and the cache file, if there is
\* one, is read. The calls that have returned by then are noted in after.
ConcLoad(p) ==
    /\ procs[p].pc = "start"
    /\ \E file \in HistoryFiles, name \in DatasetNames :
          /\ ParseHistoryLog(file) # <<>>
          /\ procs' = [procs EXCEPT
                ![p].pc = "loaded",
                ![p].parsed_records = ParseHistoryLog(file),
                ![p].historical_dataset_name = name,
                ![p].existing_cache_df = cache_file,
                ![p].after = {q \in Procs : procs[q].pc = "done"}]
    /\ UNCHANGED <<cache_file, history_file, parsed_records,
                   historical_dataset_name, existing_cache_df, n_imports>>
    /\ UNCHANGED <<search_vars, main_vars>>

\* Lines 99-116 in call p: final_df is made from what the call read and is
\* written over the cache file.
ConcWrite(p) ==
    /\ procs[p].pc = "loaded"
    /\ cache_file' = File(FinalDf(procs[p].existing_cache_df,
                                  NewHistoryDf(procs[p].parsed_records,
                                               procs[p].historical_dataset_name)))
    /\ procs' = [procs EXCEPT ![p].pc = "done"]
    /\ n_imports' = n_imports + 1
    /\ UNCHANGED <<history_file, parsed_records, historical_dataset_name,
                   existing_cache_df>>
    /\ UNCHANGED <<search_vars, main_vars>>

NextConcurrent ==
    \E p \in Procs : ConcNoRecords(p) \/ ConcLoad(p) \/ ConcWrite(p)

SpecConcurrent == InitConcurrent /\ [][NextConcurrent]_vars

\* Both calls have returned.
ConcAllDone == \A p \in Procs : procs[p].pc = "done"

\* The calls ran one after the other: one of them read the cache file after
\* the other had returned, or one of them had no records and touched nothing.
ConcSequential ==
    \E p, q \in Procs :
        /\ p # q
        /\ q \in procs[p].after \/ procs[q].parsed_records = <<>>

\* The keys call p merged.
ConcKeys(p) ==
    {<<procs[p].historical_dataset_name, procs[p].parsed_records[i][1]>> :
        i \in 1..Len(procs[p].parsed_records)}

\* C23: when the two calls ran one after the other, every key of both is in
\* the store they leave. (When they interleave, a key can be lost: the state
\* C23_LostUpdate.)
C23_SequentialKeepsKeys ==
    (ConcAllDone /\ ConcSequential) =>
        \A p \in Procs : ConcKeys(p) \subseteq StoredKeys(cache_file)

\* Both calls read the missing cache file before either wrote; both have
\* returned, and the store lacks a key that one of them merged.
C23_LostUpdate ==
    /\ ConcAllDone
    /\ ~ConcSequential
    /\ \A p \in Procs : procs[p].after = {} /\ procs[p].parsed_records # <<>>
    /\ \E p \in Procs : ~(ConcKeys(p) \subseteq StoredKeys(cache_file))

====
